---- MODULE Spec2Model ----
(***************************************************************************)
(* TerraTime (src/app.py): a Streamlit script.  Every user interaction     *)
(* re-executes main() once; st.session_state and the working directory     *)
(* survive between executions, everything else is rebuilt by the run.      *)
(* One action of this module is one execution of main() together with the  *)
(* interaction that triggered it.  Remote services (Nominatim, Earth       *)
(* Engine, geemap) are inputs of the run: each call site draws its outcome *)
(* (a value, no data, an exception) from a small set.                      *)
(***************************************************************************)
EXTENDS Integers, Sequences, FiniteSets, TLC

VARIABLES
    stage,      \* st.session_state["stage"], "unset" while the key is absent
    persona,    \* st.session_state["persona"], "None" while absent
    query,      \* st.session_state["location_input"], a sequence of characters
    gifFile,    \* terrtime_timelapse.gif on disk: absent, written by an earlier run, or by this run
    rerun,      \* st.rerun() was called: the script is re-executed before any interaction
    shown,      \* the elements the last execution of main put on the page
    calls,      \* the remote / pipeline calls the last execution made, in order
    run,        \* the locals of app_screen at the end of the last execution
    resp,       \* the answers the remote services gave the last execution
    clicked,    \* the button whose click caused the last execution ("none": no button)
    series,     \* a compute_ndvi_series call: its arguments, the service's answers, its result
    suggestions \* the last suggestion lookup: its result list, and whether Nominatim was contacted

vars == <<stage, persona, query, gifFile, rerun, shown, calls, run, resp, clicked, series,
          suggestions>>

----------------------------------------------------------------------------
(* Bounds of the model *)

\* longest location text typed into the sidebar
MaxLen == 3
\* NDVI grid: the indices k / NdviSteps for k in -NdviSteps .. NdviSteps
NdviSteps == 3
\* compute_ndvi_series ranges checked on their own span at most MaxSpan + 1 years
MaxSpan == 2
\* longest query handed to a suggestion lookup checked on its own
MaxQuery == 5

(* Program constants *)
StartYear == 2014
EndYear == 2024
MinLen == 3

Personas == {"scientist", "student", "public"}
Stages == {"splash", "persona", "app"}
GifName == "terrtime_timelapse.gif"

Alphabet == {" ", "a"}
Queries == UNION {[1..n -> Alphabet] : n \in 0..MaxLen}
\* the address of the one suggestion Nominatim returns in this model
SuggestionLabel == <<"a", "a", " ", "a">>
LongQueries == UNION {[1..n -> Alphabet] : n \in 0..MaxQuery}

----------------------------------------------------------------------------
(* The floats of the program as exact fractions in lowest terms: a number is *)
(* n / d with d > 0; d = 0 is Python's None                                  *)

None == [n |-> 0, d |-> 0]
IsNone(x) == x.d = 0
Abs(k) == IF k < 0 THEN -k ELSE k
RECURSIVE Gcd(_, _)
Gcd(a, b) == IF b = 0 THEN a ELSE Gcd(b, a % b)
Rat(n, d) == LET g == Gcd(Abs(n), d) IN [n |-> n \div g, d |-> d \div g]
Sign(k) == IF k < 0 THEN -1 ELSE 1
RAdd(x, y) == Rat(x.n * y.d + y.n * x.d, x.d * y.d)
RSub(x, y) == Rat(x.n * y.d - y.n * x.d, x.d * y.d)
RMul(x, y) == Rat(x.n * y.n, x.d * y.d)
RDiv(x, y) == Rat(x.n * y.d * Sign(y.n), x.d * Abs(y.n))
RAbs(x) == Rat(Abs(x.n), x.d)

\* the NDVI values Earth Engine may report, in hundredths: the grid and the
\* two values of the end-to-end scenario
NdviVals == {(k * 100) \div NdviSteps : k \in (-NdviSteps)..NdviSteps} \cup {40, 65}

----------------------------------------------------------------------------
(* Text helpers *)

RECURSIVE LStrip(_)
LStrip(s) == IF s = <<>> THEN s
             ELSE IF Head(s) = " " THEN LStrip(Tail(s)) ELSE s

RECURSIVE RStrip(_)
RStrip(s) == IF s = <<>> THEN s
             ELSE IF s[Len(s)] = " " THEN RStrip(SubSeq(s, 1, Len(s) - 1)) ELSE s

\* str.strip()
Strip(s) == RStrip(LStrip(s))

----------------------------------------------------------------------------
(* Nominatim helpers *)

SuggestOutcomes == {"results", "empty", "raise"}
GeoOutcomes == {"found", "no_match", "timeout", "raise"}

\* suggestions = []: no lookup made
NoSuggestions == [results |-> <<>>, contacted |-> FALSE]

\* get_osm_suggestions: the result list and whether Nominatim was contacted
get_osm_suggestions_untrimmed(q, outcome) ==
    IF q = <<>> \/ Len(q) < MinLen
    THEN [results |-> <<>>, contacted |-> FALSE]
    ELSE [results |-> IF outcome = "results" THEN <<SuggestionLabel>> ELSE <<>>,
          contacted |-> TRUE]
get_osm_suggestions(q, outcome) ==
    IF q = <<>> \/ Len(Strip(q)) < MinLen
    THEN [results |-> <<>>, contacted |-> FALSE]
    ELSE [results |-> IF outcome = "results" THEN <<SuggestionLabel>> ELSE <<>>,
          contacted |-> TRUE]

\* render_sidebar's own guard in front of get_osm_suggestions
SidebarWantsSuggestions(search_query) ==
    Strip(search_query) # <<>> /\ Len(Strip(search_query)) >= MinLen

\* render_sidebar: the suggestion lists a render may get
SidebarSuggestions(search_query) ==
    IF SidebarWantsSuggestions(search_query)
    THEN {get_osm_suggestions(Strip(search_query), so) : so \in SuggestOutcomes}
    ELSE {NoSuggestions}

\* geocode_location: "loc" for a location object, "None" otherwise
geocode_location(outcome) ==
    IF outcome = "found" THEN "loc" ELSE "None"

\* app_screen's test of the location text: not address or not address.strip()
AddressBlankNoStrip(address) == address = <<>>
AddressBlank(address) == address = <<>> \/ Strip(address) = <<>>

\* app_screen's test of the geocoder's answer
LocationMissing(location) == location = "None"

----------------------------------------------------------------------------
(* Earth Engine helpers.  The answer of the service for one year and ROI:  *)
(*   img  "ok" | "raise"      get_ndvi_image builds the image or raises    *)
(*   red  "value"             getInfo() returns the number v / 100         *)
(*        "raise_reduce"      reduceRegion / stats.get raises (no try)     *)
(*        "no_value"          stats.get("NDVI") is None                    *)
(*        "raise_getinfo"     getInfo() raises or returns null (float(None)*)
(*                            raises TypeError), inside the try            *)

OkResp(v) == [img |-> "ok", red |-> "value", v |-> v]
ImgRaise == [img |-> "raise", red |-> "value", v |-> 0]
ReduceRaise == [img |-> "ok", red |-> "raise_reduce", v |-> 0]
NoValue == [img |-> "ok", red |-> "no_value", v |-> 0]
GetInfoRaise == [img |-> "ok", red |-> "raise_getinfo", v |-> 0]
FailResps == {ImgRaise, ReduceRaise, NoValue, GetInfoRaise}

\* get_ndvi_image: TRUE when it returns an image, FALSE when it raises
get_ndvi_image(r) == r.img = "ok"

\* compute_mean_ndvi: exc when the exception leaves the function, else its value
compute_mean_ndvi(r) ==
    IF r.red = "raise_reduce" THEN [exc |-> TRUE, val |-> None]
    ELSE IF r.red = "no_value" THEN [exc |-> FALSE, val |-> None]
    ELSE IF r.red = "raise_getinfo" THEN [exc |-> FALSE, val |-> None]
    ELSE [exc |-> FALSE, val |-> Rat(r.v, 100)]

\* one iteration of compute_ndvi_series' loop body: the try / except
SeriesYearValue(r) ==
    IF ~get_ndvi_image(r) THEN None
    ELSE LET m == compute_mean_ndvi(r) IN IF m.exc THEN None ELSE m.val

\* values.append(mean_v)
SeriesAppendDefined(values, mean_v) == IF IsNone(mean_v) THEN values ELSE Append(values, mean_v)
SeriesAppend(values, mean_v) == Append(values, mean_v)

\* list(range(start_year, end_year + 1))
YearList(start_year, end_year) ==
    IF end_year < start_year THEN <<>>
    ELSE [i \in 1..(end_year - start_year + 1) |-> start_year + i - 1]

RECURSIVE SeriesLoop(_, _, _, _, _)
SeriesLoop(years, rf, i, values, queried) ==
    IF i > Len(years) THEN [values |-> values, queried |-> queried]
    ELSE SeriesLoop(years, rf, i + 1,
                    SeriesAppend(values, SeriesYearValue(rf[years[i]])),
                    Append(queried, years[i]))

\* compute_ndvi_series(roi, start_year, end_year); rf gives the service's answer per year
compute_ndvi_series(start_year, end_year, rf) ==
    LET years == YearList(start_year, end_year)
        r == SeriesLoop(years, rf, 1, <<>>, <<>>)
    IN [called |-> TRUE, start |-> start_year, end |-> end_year, rf |-> rf,
        years |-> years, values |-> r.values, queried |-> r.queried]

NoSeries == [called |-> FALSE, start |-> 1, end |-> 0, rf |-> [y \in 1..0 |-> ImgRaise],
             years |-> <<>>, values |-> <<>>, queried |-> <<>>]

\* create_timelapse_gif: what geemap.create_timelapse did, and the file before
TimelapseOutcomes == {"written", "raise", "no_output"}
create_timelapse_gif_uncaught(outcome, file) ==
    [path |-> IF outcome = "written" THEN GifName ELSE "None",
     file |-> IF outcome = "written" THEN "current" ELSE file,
     exc |-> outcome = "raise"]
create_timelapse_gif(outcome, file) ==
    IF outcome = "raise" THEN [path |-> "None", file |-> file, exc |-> FALSE]
    ELSE LET after == IF outcome = "written" THEN "current" ELSE file
         IN [path |-> IF after # "absent" THEN GifName ELSE "None",
             file |-> after, exc |-> FALSE]

----------------------------------------------------------------------------
(* The change-report arithmetic of app_screen *)

\* (mean + 1) / 2 * 100
GreenScoreUnshifted(mean) == RMul(RDiv(mean, Rat(2, 1)), Rat(100, 1))
GreenScore(mean) == RMul(RDiv(RAdd(mean, Rat(1, 1)), Rat(2, 1)), Rat(100, 1))

\* the percent change; 0.0 when the 2014 mean is 0
PctChangeSigned(mean_2014, mean_2024) ==
    IF mean_2014.n # 0
    THEN RMul(RDiv(RSub(mean_2024, mean_2014), mean_2014), Rat(100, 1))
    ELSE Rat(0, 1)
PctChange(mean_2014, mean_2024) ==
    IF mean_2014.n # 0
    THEN RMul(RDiv(RSub(mean_2024, mean_2014), RAbs(mean_2014)), Rat(100, 1))
    ELSE Rat(0, 1)

\* the test in front of the 'Could not compute vegetation stats' message
StatsUnavailable(mean_2014, mean_2024) == IsNone(mean_2014) \/ IsNone(mean_2024)

----------------------------------------------------------------------------
(* app_screen: the statistics of the two comparison years (one try block)  *)

\* the calls the try block makes, in order, up to the first that raises
StatCalls(r14, r24) ==
    IF ~get_ndvi_image(r14) THEN <<"get_ndvi_image_2014">>
    ELSE IF ~get_ndvi_image(r24) THEN <<"get_ndvi_image_2014", "get_ndvi_image_2024">>
    ELSE IF compute_mean_ndvi(r14).exc
         THEN <<"get_ndvi_image_2014", "get_ndvi_image_2024", "compute_mean_ndvi_2014">>
    ELSE <<"get_ndvi_image_2014", "get_ndvi_image_2024",
           "compute_mean_ndvi_2014", "compute_mean_ndvi_2024">>

\* the try block and the two tests behind it: how this part of the run ends,
\* and the locals it leaves; has14 / has24 tell whether the local was assigned
\* (mean_ndvi_2014 is assigned before compute_mean_ndvi runs for 2024)
AuditStats(r14, r24) ==
    LET images == get_ndvi_image(r14) /\ get_ndvi_image(r24)
        c14 == compute_mean_ndvi(r14)
        c24 == compute_mean_ndvi(r24)
        has14 == images /\ ~c14.exc
        has24 == has14 /\ ~c24.exc
        m14 == IF has14 THEN c14.val ELSE None
        m24 == IF has24 THEN c24.val ELSE None
    IN IF ~has24
       THEN [kind |-> "exc", calls |-> StatCalls(r14, r24),
             has14 |-> has14, has24 |-> has24, mean14 |-> m14, mean24 |-> m24,
             gs14 |-> None, gs24 |-> None, pct |-> None]
       ELSE IF StatsUnavailable(m14, m24)
       THEN [kind |-> "insufficient", calls |-> StatCalls(r14, r24),
             has14 |-> has14, has24 |-> has24, mean14 |-> m14, mean24 |-> m24,
             gs14 |-> None, gs24 |-> None, pct |-> None]
       ELSE [kind |-> "ok", calls |-> StatCalls(r14, r24),
             has14 |-> has14, has24 |-> has24, mean14 |-> m14, mean24 |-> m24,
             gs14 |-> GreenScore(m14), gs24 |-> GreenScore(m24),
             pct |-> PctChange(m14, m24)]

\* the trend series, computed for scientist and student only
AuditSeries(p, rf) ==
    IF p \in {"scientist", "student"}
    THEN compute_ndvi_series(StartYear, EndYear, rf)
    ELSE NoSeries

\* the arguments app_screen passes to render_report
NoReport == [persona |-> "None", address |-> <<>>, buffer_km |-> 0,
             mean_ndvi_2014 |-> None, mean_ndvi_2024 |-> None,
             green_score_2014 |-> None, green_score_2024 |-> None,
             pct_change |-> None, gif_path |-> "None",
             ndvi_years |-> <<>>, ndvi_values |-> <<>>]

ReportArgsByPersona(p, address, buffer_km, st, gif_path, ser) ==
    [persona |-> p, address |-> address, buffer_km |-> buffer_km,
     mean_ndvi_2014 |-> st.mean14, mean_ndvi_2024 |-> st.mean24,
     green_score_2014 |-> st.gs14, green_score_2024 |-> st.gs24,
     pct_change |-> IF p = "public" THEN RAbs(st.pct) ELSE st.pct,
     gif_path |-> gif_path,
     ndvi_years |-> ser.years, ndvi_values |-> ser.values]

ReportArgs(p, address, buffer_km, st, gif_path, ser) ==
    [persona |-> p, address |-> address, buffer_km |-> buffer_km,
     mean_ndvi_2014 |-> st.mean14, mean_ndvi_2024 |-> st.mean24,
     green_score_2014 |-> st.gs14, green_score_2024 |-> st.gs24,
     pct_change |-> st.pct,
     gif_path |-> gif_path,
     ndvi_years |-> ser.years, ndvi_values |-> ser.values]

\* render_report's test in front of the animation buttons
GifAvailable(gif_path, file) == gif_path # "None" /\ file # "absent"

\* render_report: the elements it puts on the page
render_report(args, file, view_clicked) ==
    {"report_header", "green_score_2014", "green_score_2024", "change_metric",
     "timelapse_header"}
    \cup (IF args.persona = "public" THEN {"text_public"}
          ELSE IF args.persona = "student" THEN {"text_student"}
          ELSE {"text_scientist"})
    \cup (IF /\ args.persona \in {"scientist", "student"}
             /\ args.ndvi_years # <<>>
             /\ \E i \in 1..Len(args.ndvi_values) : ~IsNone(args.ndvi_values[i])
          THEN {"trend_chart"} ELSE {})
    \cup (IF GifAvailable(args.gif_path, file)
          THEN {"btn_view", "btn_download"}
               \cup (IF view_clicked THEN {"gif_image"} ELSE {})
          ELSE {"warn_timelapse"})

----------------------------------------------------------------------------
(* The state of one execution of main *)

NoRun == [executed |-> FALSE, persona |-> "None", reached |-> "none",
          address |-> <<>>, buffer_km |-> 0, location |-> "None",
          has14 |-> FALSE, has24 |-> FALSE, mean14 |-> None, mean24 |-> None,
          exc |-> FALSE, report |-> NoReport]

\* geo, tl: "none" while the geocoder / the timelapse was not called
NoResp == [geo |-> "none", r14 |-> ImgRaise, r24 |-> ImgRaise, tl |-> "none"]

\* the file a run finds on disk was written by an earlier run
Aged(file) == IF file = "current" THEN "previous" ELSE file

\* the radius slider, left at the persona's default
Radii(p) == IF p = "scientist" THEN {10} ELSE {5}

\* answers of the service for the two comparison years of one audit: defined
\* pairs (a fall, a rise, a zero baseline, a negative baseline) and failures
\* of either year
StatInputs ==
    {<<OkResp(65), OkResp(40)>>, <<OkResp(40), OkResp(65)>>,
     <<OkResp(0), OkResp(40)>>, <<OkResp(-50), OkResp(40)>>}
    \cup {<<f, OkResp(40)>> : f \in FailResps}
    \cup {<<OkResp(65), f>> : f \in FailResps}
    \cup {<<NoValue, GetInfoRaise>>, <<NoValue, ReduceRaise>>}

\* answers of the service to the trend series: every year defined, the first
\* year without data, every year failing
SeriesInputs(p) ==
    IF p \in {"scientist", "student"}
    THEN {[y \in StartYear..EndYear |-> OkResp(40)],
          [y \in StartYear..EndYear |-> IF y = StartYear THEN NoValue ELSE OkResp(40)],
          [y \in StartYear..EndYear |-> ImgRaise]}
    ELSE {NoSeries.rf}

Init ==
    /\ stage = "unset"
    /\ persona = "None"
    /\ query = <<>>
    /\ gifFile = "absent"
    /\ rerun = FALSE
    /\ shown = {}
    /\ calls = <<>>
    /\ run = NoRun
    /\ resp = NoResp
    /\ clicked = "none"
    /\ series = NoSeries
    /\ suggestions = NoSuggestions

\* main: the stage it reads after its default of "splash"
StageRead == IF stage = "unset" THEN "splash" ELSE stage

\* what a run that never enters app_screen leaves behind
NoAppScreen(click) ==
    /\ clicked' = click
    /\ calls' = <<>>
    /\ run' = NoRun
    /\ resp' = NoResp
    /\ series' = NoSeries
    /\ gifFile' = Aged(gifFile)
    /\ query' = <<>>
    /\ suggestions' = NoSuggestions

\* the stage the 'Choose your identity' button sets
SplashTargetApp == "app"
SplashTarget == "persona"

\* splash_screen
SplashScreen(click) ==
    /\ shown' = {"splash_title", "btn_choose"}
    /\ IF click = "btn_choose"
       THEN stage' = SplashTarget /\ rerun' = TRUE
       ELSE stage' = StageRead /\ rerun' = FALSE
    /\ UNCHANGED persona
    /\ NoAppScreen(click)

\* persona_screen
PersonaScreen(click) ==
    /\ shown' = {"persona_title", "btn_scientist", "btn_student", "btn_public"}
    /\ IF click \in {"btn_scientist", "btn_student", "btn_public"}
       THEN /\ persona' = (CASE click = "btn_scientist" -> "scientist"
                             [] click = "btn_student" -> "student"
                             [] OTHER -> "public")
            /\ stage' = "app"
            /\ rerun' = TRUE
       ELSE /\ UNCHANGED <<persona, stage>>
            /\ rerun' = FALSE
    /\ NoAppScreen(click)

\* main's test in front of app_screen: not persona
PersonaUnsetIgnored(p) == FALSE
PersonaUnset(p) == p = "None"

\* main, stage "app" without a persona: back to the persona stage, st.rerun()
\* ends the execution before app_screen
RedirectToPersona(click) ==
    /\ stage' = "persona"
    /\ rerun' = TRUE
    /\ shown' = {}
    /\ UNCHANGED persona
    /\ NoAppScreen(click)

----------------------------------------------------------------------------
(* app_screen *)

SidebarTop == {"sidebar_title", "btn_change"}
SidebarRest == {"location_input", "slider_radius", "checkbox_health",
                "select_year", "btn_run"}

\* the end of an execution of app_screen that called neither st.rerun nor st.stop
AppEnds(sh, cl, rn, rs, se, gf) ==
    /\ shown' = sh
    /\ calls' = cl
    /\ run' = rn
    /\ resp' = rs
    /\ series' = se
    /\ gifFile' = gf
    /\ rerun' = FALSE
    /\ UNCHANGED <<stage, persona>>

\* the trend series, the map, the timelapse and the report.  The optional map
\* layers (year preview, health overlay) sit in try / except: pass and leave
\* no trace in the report; they are not modelled.
AuditReport(p, address, buffer_km, locals, cl, sh, rs, st) ==
    \E ser \in {AuditSeries(p, rf) : rf \in SeriesInputs(p)}, mapOutcome \in {"ok", "raise"} :
        LET clSer == cl \o (IF ser.called THEN <<"compute_ndvi_series">> ELSE <<>>)
            clTc == clSer \o <<"get_true_color_year_2024">>
        IN  IF mapOutcome # "ok"
            THEN \* Map.addLayer(roi, ...) and Map.centerObject(roi, 10) are
                 \* outside every try: the exception leaves app_screen
                 AppEnds(sh \cup {"exception"}, clTc,
                         [locals EXCEPT !.reached = "crash", !.exc = TRUE],
                         rs, ser, Aged(gifFile))
            ELSE \E tl \in TimelapseOutcomes :
                 \E g \in {create_timelapse_gif(tl, Aged(gifFile))} :
                 LET args == ReportArgs(p, address, buffer_km, st, g.path, ser)
                     clTl == clTc \o <<"create_timelapse_gif">>
                 IN  IF g.exc
                     THEN AppEnds(sh \cup {"exception"}, clTl,
                                  [locals EXCEPT !.reached = "crash", !.exc = TRUE],
                                  [rs EXCEPT !.tl = tl], ser, g.file)
                     ELSE AppEnds(sh \cup {"map"} \cup render_report(args, g.file, FALSE),
                                  clTl,
                                  [locals EXCEPT !.reached = "report", !.report = args],
                                  [rs EXCEPT !.tl = tl], ser, g.file)

\* the audit: from the spinner to the report
Audit(p, address, buffer_km, base, cl, sh) ==
    IF AddressBlank(address)
    THEN AppEnds(sh \cup {"err_input"}, cl, [base EXCEPT !.reached = "err_input"],
                 NoResp, NoSeries, Aged(gifFile))
    ELSE \E geo \in GeoOutcomes :
         LET location == geocode_location(geo)
             clGeo == cl \o <<"nominatim_geocode">>
             located == [base EXCEPT !.location = location]
         IN  IF LocationMissing(location)
             THEN AppEnds(sh \cup {"err_notfound"}, clGeo,
                          [located EXCEPT !.reached = "err_notfound"],
                          [NoResp EXCEPT !.geo = geo], NoSeries, Aged(gifFile))
             ELSE \E rr \in StatInputs : \E st \in {AuditStats(rr[1], rr[2])} :
                  LET clSt == clGeo \o <<"create_roi">> \o st.calls
                      rs == [NoResp EXCEPT !.geo = geo, !.r14 = rr[1], !.r24 = rr[2]]
                      locals == [located EXCEPT !.has14 = st.has14, !.has24 = st.has24,
                                                !.mean14 = st.mean14,
                                                !.mean24 = st.mean24]
                  IN  IF st.kind = "exc"
                      THEN AppEnds(sh \cup {"err_ndvi_exc"}, clSt,
                                   [locals EXCEPT !.reached = "err_ndvi_exc"],
                                   rs, NoSeries, Aged(gifFile))
                      ELSE IF st.kind = "insufficient"
                      THEN AppEnds(sh \cup {"err_stats"}, clSt,
                                   [locals EXCEPT !.reached = "err_stats"],
                                   rs, NoSeries, Aged(gifFile))
                      ELSE AuditReport(p, address, buffer_km, locals, clSt, sh, rs, st)

\* app_screen(persona); click is the button whose click caused this execution
\* and q the content of the location box
AppScreen(p, click, q) ==
    /\ clicked' = click
    /\ \/ \* initialize_earth_engine fails: st.error, st.stop
          /\ shown' = {"err_ee_init"}
          /\ run' = [NoRun EXCEPT !.executed = TRUE, !.persona = p, !.reached = "ee_stop"]
          /\ calls' = <<>> /\ resp' = NoResp /\ series' = NoSeries
          /\ gifFile' = Aged(gifFile)
          /\ query' = <<>>
          /\ suggestions' = NoSuggestions
          /\ rerun' = FALSE
          /\ UNCHANGED <<stage, persona>>
       \/ \* render_sidebar: 'Change identity'
          /\ click = "btn_change"
          /\ stage' = "persona"
          /\ rerun' = TRUE
          /\ shown' = SidebarTop
          /\ run' = [NoRun EXCEPT !.executed = TRUE, !.persona = p, !.reached = "rerun"]
          /\ calls' = <<>> /\ resp' = NoResp /\ series' = NoSeries
          /\ gifFile' = Aged(gifFile)
          /\ suggestions' = NoSuggestions
          /\ UNCHANGED <<persona, query>>
       \/ \* the sidebar is rendered in full
          /\ click # "btn_change"
          /\ query' = q
          /\ \E sugg \in SidebarSuggestions(q), pick \in BOOLEAN, buffer_km \in Radii(p) :
               LET labels == sugg.results
                   address == IF pick /\ labels # <<>> THEN labels[1] ELSE q
                   cl == IF sugg.contacted THEN <<"nominatim_suggest">> ELSE <<>>
                   sh == SidebarTop \cup SidebarRest \cup {"title"}
                         \cup (IF labels # <<>> THEN {"radio_suggestions"} ELSE {})
                   base == [NoRun EXCEPT !.executed = TRUE, !.persona = p,
                                         !.address = address, !.buffer_km = buffer_km]
               IN  /\ labels # <<>> \/ ~pick
                   /\ suggestions' = sugg
                   /\ IF click # "btn_run"
                      THEN AppEnds(sh \cup {"info_idle"}, cl,
                                   [base EXCEPT !.reached = "idle"],
                                   NoResp, NoSeries, Aged(gifFile))
                      ELSE Audit(p, address, buffer_km, base, cl, sh)

----------------------------------------------------------------------------
(* main, and the interactions that execute it *)

MainRun(click, q) ==
    \/ StageRead = "splash" /\ SplashScreen(click)
    \/ StageRead = "persona" /\ PersonaScreen(click)
    \/ StageRead = "app" /\ PersonaUnset(persona) /\ RedirectToPersona(click)
    \/ StageRead = "app" /\ ~PersonaUnset(persona) /\ AppScreen(persona, click, q)

Clickable(b) == ~rerun /\ b \in shown

\* the first execution of a session
SessionStart == stage = "unset" /\ MainRun("none", query)

\* st.rerun(), or the user's own rerun of the script
RerunScript == stage # "unset" /\ MainRun("none", query)

ClickChooseIdentity == Clickable("btn_choose") /\ MainRun("btn_choose", query)

ClickUseMode(b) == Clickable(b) /\ MainRun(b, query)

ClickChangeIdentity == Clickable("btn_change") /\ MainRun("btn_change", query)

TypeLocation(q) == Clickable("location_input") /\ q # query /\ MainRun("none", q)

ClickRunAudit == Clickable("btn_run") /\ MainRun("btn_run", query)

ClickViewTimelapse == Clickable("btn_view") /\ MainRun("btn_view", query)

ClickDownload == Clickable("btn_download") /\ MainRun("btn_download", query)

Next ==
    \/ SessionStart
    \/ RerunScript
    \/ ClickChooseIdentity
    \/ \E b \in {"btn_scientist", "btn_student", "btn_public"} : ClickUseMode(b)
    \/ ClickChangeIdentity
    \/ \E q \in Queries : TypeLocation(q)
    \/ ClickRunAudit
    \/ ClickViewTimelapse
    \/ ClickDownload

\* a session of the app, from its first execution
Spec == Init /\ [][Next]_vars

\* a session whose state was set from outside (the '{stage: "app", persona: None}'
\* scenario): any stage with any persona, nothing rendered yet
InitDirect ==
    /\ stage \in {"unset"} \cup Stages
    /\ persona \in {"None"} \cup Personas
    /\ query = <<>>
    /\ gifFile = "absent"
    /\ rerun = FALSE
    /\ shown = {}
    /\ calls = <<>>
    /\ run = NoRun
    /\ resp = NoResp
    /\ clicked = "none"
    /\ series = NoSeries
    /\ suggestions = NoSuggestions

SpecDirect == InitDirect /\ [][Next]_vars

----------------------------------------------------------------------------
(* compute_ndvi_series on its own: every range of at most MaxSpan + 1 years *)
(* from StartYear on, every pattern of answers                              *)

SeriesResps == {OkResp(40), ImgRaise, ReduceRaise, NoValue, GetInfoRaise}

InitSeries ==
    /\ stage = "unset" /\ persona = "None" /\ query = <<>> /\ gifFile = "absent"
    /\ rerun = FALSE /\ shown = {} /\ calls = <<>> /\ run = NoRun
    /\ resp = NoResp /\ clicked = "none" /\ suggestions = NoSuggestions
    /\ \E y0 \in StartYear..(StartYear + MaxSpan) :
       \E y1 \in y0..(StartYear + MaxSpan) :
       \E rf \in [y0..y1 -> SeriesResps] :
           series = [NoSeries EXCEPT !.start = y0, !.end = y1, !.rf = rf]

SeriesCall ==
    /\ ~series.called
    /\ series' = compute_ndvi_series(series.start, series.end, series.rf)
    /\ UNCHANGED <<stage, persona, query, gifFile, rerun, shown, calls, run, resp, clicked,
                   suggestions>>

SpecSeries == InitSeries /\ [][SeriesCall]_vars

----------------------------------------------------------------------------
(* the change-report arithmetic on its own: every pair of indices of the grid *)

InitCalc ==
    /\ stage = "unset" /\ persona = "None" /\ query = <<>> /\ gifFile = "absent"
    /\ rerun = FALSE /\ shown = {} /\ calls = <<>> /\ run = NoRun
    /\ clicked = "none" /\ series = NoSeries /\ suggestions = NoSuggestions
    /\ \E a \in NdviVals, b \in NdviVals :
           resp = [NoResp EXCEPT !.r14 = OkResp(a), !.r24 = OkResp(b)]

\* app_screen from the try block to the percent change, for the answers in resp
CalcStep ==
    /\ run.reached = "none"
    /\ \E st \in {AuditStats(resp.r14, resp.r24)} :
         run' = [NoRun EXCEPT !.reached = "calc",
                   !.has14 = st.has14, !.has24 = st.has24,
                   !.mean14 = st.mean14, !.mean24 = st.mean24,
                   !.report = ReportArgs("public", <<>>, 0, st, "None", NoSeries)]
    /\ UNCHANGED <<stage, persona, query, gifFile, rerun, shown, calls, resp, clicked, series,
                   suggestions>>

SpecCalc == InitCalc /\ [][CalcStep]_vars

----------------------------------------------------------------------------
(* the suggestion lookup on its own: every query of at most MaxQuery          *)
(* characters, handed to get_osm_suggestions as it is, or typed into the      *)
(* sidebar's location box                                                     *)

InitSuggest ==
    /\ stage = "unset" /\ persona = "None" /\ gifFile = "absent"
    /\ rerun = FALSE /\ shown = {} /\ calls = <<>> /\ run = NoRun
    /\ resp = NoResp /\ clicked = "none" /\ series = NoSeries
    /\ suggestions = NoSuggestions
    /\ query \in LongQueries

\* what a lookup leaves behind: the list, and the call to Nominatim if one was made
LookupEnds(sugg, reached, sh) ==
    /\ suggestions' = sugg
    /\ calls' = (IF sugg.contacted THEN <<"nominatim_suggest">> ELSE <<>>)
    /\ shown' = sh \cup (IF sugg.results # <<>> THEN {"radio_suggestions"} ELSE {})
    /\ run' = [NoRun EXCEPT !.reached = reached]
    /\ UNCHANGED <<stage, persona, query, gifFile, rerun, resp, clicked, series>>

\* get_osm_suggestions(query)
SuggestCall ==
    /\ run.reached = "none"
    /\ \E so \in SuggestOutcomes : LookupEnds(get_osm_suggestions(query, so), "suggest", {})

\* render_sidebar from the location box to the suggestion list
SidebarLookup ==
    /\ run.reached = "none"
    /\ \E sugg \in SidebarSuggestions(query) : LookupEnds(sugg, "sidebar", {"location_input"})

SpecSuggest == InitSuggest /\ [][SuggestCall \/ SidebarLookup]_vars

----------------------------------------------------------------------------
(* Properties *)

ReportElements == {"map", "report_header", "green_score_2014", "green_score_2024",
                   "change_metric", "trend_chart", "timelapse_header", "btn_view",
                   "btn_download", "gif_image", "warn_timelapse"}

ImageryCalls == {"create_roi", "get_ndvi_image_2014", "get_ndvi_image_2024",
                 "compute_mean_ndvi_2014", "compute_mean_ndvi_2024",
                 "compute_ndvi_series", "get_true_color_year_2024",
                 "create_timelapse_gif"}

Called(c) == \E i \in 1..Len(calls) : calls[i] = c

\* an audit run whose location was resolved
AuditLocated == clicked = "btn_run" /\ run.executed /\ run.location = "loc"

\* C1: in an audit run with the location resolved, if the mean index of 2014
\* or of 2024 is None, the run ends with the 'Could not compute vegetation
\* stats' message, no element of the report is on the page, and neither the
\* trend series nor the timelapse was invoked.
C1_UnavailableEndsWithStatsMessage ==
    (/\ AuditLocated
     /\ \/ run.has14 /\ IsNone(run.mean14)
        \/ run.has24 /\ IsNone(run.mean24))
    => /\ "err_stats" \in shown
       /\ shown \cap ReportElements = {}
       /\ ~Called("compute_ndvi_series")
       /\ ~Called("create_timelapse_gif")

\* the computation of a year raised: in get_ndvi_image or in compute_mean_ndvi
Raised(r) == ~get_ndvi_image(r) \/ compute_mean_ndvi(r).exc

\* C2: in an audit run, an exception raised while computing the mean index of
\* one comparison year is turned into 'unavailable' for that year only: the
\* other year's mean index is still computed, and the run goes on to the test
\* of the two means instead of ending in the exception handler.
C2_YearFailureIsolated ==
    (AuditLocated /\ Called("create_roi"))
    => /\ Raised(resp.r14) =>
            /\ Called("get_ndvi_image_2024") /\ Called("compute_mean_ndvi_2024")
            /\ run.reached # "err_ndvi_exc"
       /\ Raised(resp.r24) =>
            /\ Called("get_ndvi_image_2014") /\ Called("compute_mean_ndvi_2014")
            /\ run.reached # "err_ndvi_exc"

PersonaOfButton(b) ==
    CASE b = "btn_scientist" -> "scientist"
      [] b = "btn_student" -> "student"
      [] b = "btn_public" -> "public"
      [] OTHER -> "None"

\* C3: from a session start the stage is always splash, persona or app, and it
\* changes only splash -> persona on 'Choose your identity', persona -> app on
\* a 'Use ... Mode' button (which sets persona to that mode in the same step)
\* and app -> persona on 'Change identity'.
C3_StageTransitions ==
    [][/\ stage' \in Stages
       /\ (stage # "unset" /\ stage' # stage) =>
            \/ stage = "splash" /\ stage' = "persona" /\ clicked' = "btn_choose"
            \/ /\ stage = "persona" /\ stage' = "app"
               /\ clicked' \in {"btn_scientist", "btn_student", "btn_public"}
               /\ persona' = PersonaOfButton(clicked')
            \/ stage = "app" /\ stage' = "persona" /\ clicked' = "btn_change"
       /\ stage = "unset" => stage' = "splash"]_vars

\* the stage went app -> persona by 'Change identity'
C3_Witness == stage = "persona" /\ clicked = "btn_change" /\ persona = "student"

\* C4: an execution of main with stage "app" and no persona sets the stage to
\* "persona" and ends in st.rerun() without entering app_screen, the execution
\* that follows renders the persona screen, and app_screen never runs without
\* a persona.
C4_NoPersonaRedirects ==
    [][/\ (stage = "app" /\ persona = "None") =>
            /\ stage' = "persona" /\ rerun'
            /\ ~run'.executed
            /\ shown' \cap (SidebarTop \cup SidebarRest) = {}
       /\ (rerun /\ stage = "persona") => "persona_title" \in shown'
       /\ run'.executed => run'.persona \in Personas]_vars

\* the redirect happened: nothing rendered, a rerun pending
C4_Witness == stage = "persona" /\ persona = "None" /\ rerun /\ shown = {}

\* C5: in an audit run with both means defined, if timelapse generation raises,
\* the run still renders the report with both green scores, the change metric
\* and the 'Timelapse could not be generated' notice, and no exception leaves
\* app_screen.
C5_TimelapseFailureStillReports ==
    (AuditLocated /\ resp.tl = "raise")
    => /\ run.reached = "report"
       /\ {"green_score_2014", "green_score_2024", "change_metric",
           "warn_timelapse"} \subseteq shown
       /\ ~run.exc
       /\ "exception" \notin shown

C5_Witness ==
    /\ AuditLocated /\ resp.tl = "raise" /\ run.reached = "report"
    /\ gifFile = "previous"

\* C6: whenever timelapse generation fails or writes nothing in the current
\* run, the report shows the notice and offers no animation; an animation
\* offered by a report was written by that same run.
C6_AnimationIsFromThisRun ==
    /\ (AuditLocated /\ run.reached = "report" /\ resp.tl \in {"raise", "no_output"})
       => /\ "warn_timelapse" \in shown
          /\ "btn_view" \notin shown /\ "btn_download" \notin shown
    /\ ("btn_view" \in shown \/ "btn_download" \in shown) => gifFile = "current"

\* the value one year of the series must hold: the index when the service
\* answered with one, None otherwise
ExpectedYearValue(r) ==
    IF r.img = "ok" /\ r.red = "value" THEN Rat(r.v, 100) ELSE None

\* C7: compute_ndvi_series over [Y0, Y1] returns Y1 - Y0 + 1 years ascending and
\* as many values, position i holding the result of year Y0 + i - 1; a failed
\* year is a None at its position, and every year is queried.
C7_SeriesComplete ==
    series.called =>
       LET n == series.end - series.start + 1
       IN /\ Len(series.years) = n
          /\ Len(series.values) = n
          /\ Len(series.queried) = n
          /\ \A i \in 1..n :
                /\ series.years[i] = series.start + i - 1
                /\ series.queried[i] = series.start + i - 1
                /\ series.values[i] = ExpectedYearValue(series.rf[series.start + i - 1])

\* a failed first year in front of a defined one
C7_Witness ==
    /\ series.called /\ series.end - series.start = 2
    /\ series.rf[series.start] = ImgRaise
    /\ IsNone(series.values[1]) /\ ~IsNone(series.values[2]) /\ IsNone(series.values[3])

Blank(address) == \A i \in 1..Len(address) : address[i] = " "

\* C8: in an audit run, if the location text is empty or whitespace or the
\* geocoder finds no match (also when it times out or raises), an error is on
\* the page and no region is built and no imagery query is made; for blank
\* text the geocoder is not called either.
C8_BadLocationStopsPipeline ==
    (clicked = "btn_run" /\ run.executed /\ run.reached # "ee_stop")
    => /\ Blank(run.address) =>
            /\ "err_input" \in shown
            /\ ~Called("nominatim_geocode")
            /\ \A c \in ImageryCalls : ~Called(c)
            /\ shown \cap ReportElements = {}
       /\ resp.geo \in {"no_match", "timeout", "raise"} =>
            /\ "err_notfound" \in shown
            /\ \A c \in ImageryCalls : ~Called(c)
            /\ shown \cap ReportElements = {}

\* a whitespace-only location stopped the audit
C8_Witness ==
    /\ clicked = "btn_run" /\ run.executed /\ run.address = <<" ", " ">>
    /\ "err_input" \in shown

\* C9: the values passed to render_report do not depend on the persona: with
\* the same address, radius and remote answers, each persona gets the means,
\* green scores and percent change this run got.
C9_PersonaIndependent ==
    run.reached = "report" =>
       \A q \in Personas :
          LET st == AuditStats(resp.r14, resp.r24)
              a == ReportArgs(q, run.address, run.buffer_km, st,
                              run.report.gif_path, series)
          IN /\ st.kind = "ok"
             /\ a.mean_ndvi_2014 = run.report.mean_ndvi_2014
             /\ a.mean_ndvi_2024 = run.report.mean_ndvi_2024
             /\ a.green_score_2014 = run.report.green_score_2014
             /\ a.green_score_2024 = run.report.green_score_2024
             /\ a.pct_change = run.report.pct_change

C9_Witness ==
    /\ run.reached = "report" /\ run.persona = "scientist"
    /\ run.report.pct_change.n < 0

\* C10: the percent change of two defined indices a / 100 and b / 100 is
\* (b - a) / |a| * 100 when a # 0 and exactly 0 when a = 0; 0.65 and 0.40 give
\* about -38.46.
C10_PercentChange ==
    run.reached = "calc" =>
       LET a == resp.r14.v
           b == resp.r24.v
           pct == run.report.pct_change
       IN /\ pct.d > 0
          /\ a # 0 => pct.n * Abs(a) = (b - a) * 100 * pct.d
          /\ a = 0 => pct.n = 0
          /\ (a = 65 /\ b = 40) =>
                /\ -3847 * pct.d < pct.n * 100
                /\ pct.n * 100 < -3846 * pct.d

C10_Witness ==
    /\ run.reached = "calc" /\ resp.r14.v = 65 /\ resp.r24.v = 40
    /\ run.report.pct_change.n < 0

\* x <= y for two defined numbers
RLe(x, y) == x.n * y.d <= y.n * x.d

\* C11: for defined indices a / 100 and b / 100 in [-1, 1] the green scores of
\* the audit equal (index + 1) / 2 * 100, lie in [0, 100] and are ordered as
\* the indices are; 0.65 gives 82.5 and 0.40 gives 70.
C11_GreenScoreRange ==
    run.reached = "calc" =>
       LET a == resp.r14.v
           b == resp.r24.v
           g14 == run.report.green_score_2014
           g24 == run.report.green_score_2024
       IN /\ g14.d > 0 /\ g24.d > 0
          /\ g14.n * 2 = (a + 100) * g14.d
          /\ g24.n * 2 = (b + 100) * g24.d
          /\ RLe(Rat(0, 1), g14) /\ RLe(g14, Rat(100, 1))
          /\ RLe(Rat(0, 1), g24) /\ RLe(g24, Rat(100, 1))
          /\ (a <= b) => RLe(g14, g24)
          /\ (b <= a) => RLe(g24, g14)
          /\ (a = 65) => g14 = [n |-> 165, d |-> 2]
          /\ (b = 40) => g24 = [n |-> 70, d |-> 1]

\* the scores of the end-to-end scenario, and of the two ends of the range
C11_Witness ==
    /\ run.reached = "calc"
    /\ \/ /\ resp.r14.v = 65 /\ resp.r24.v = 40
          /\ run.report.green_score_2014 = [n |-> 165, d |-> 2]
          /\ run.report.green_score_2024 = [n |-> 70, d |-> 1]
       \/ /\ resp.r14.v = -100 /\ resp.r24.v = 100
          /\ run.report.green_score_2014.n = 0
          /\ run.report.green_score_2024 = [n |-> 100, d |-> 1]

\* C12: a query whose trimmed length is below 3 (empty and whitespace-only
\* included) gets an empty suggestion list and Nominatim is not contacted, in
\* get_osm_suggestions and in every render of the sidebar's location box.
C12_ShortQueryNoLookup ==
    (/\ run.reached = "suggest" \/ "location_input" \in shown
     /\ Len(Strip(query)) < MinLen)
    => /\ suggestions.results = <<>>
       /\ ~suggestions.contacted
       /\ ~Called("nominatim_suggest")
       /\ "radio_suggestions" \notin shown

\* a query of three or more characters that trims to fewer than three, handed
\* to get_osm_suggestions
C12_Witness ==
    /\ run.reached = "suggest"
    /\ Len(query) >= MinLen /\ Len(Strip(query)) = 2
    /\ suggestions = NoSuggestions /\ calls = <<>>

\* C13: with the report of a successful audit on the page and its timelapse
\* generated by that run, a click on 'View Timelapse GIF' leads to an execution
\* of main that, once Earth Engine is initialised, displays the animation with
\* the report still on the page.
C13_ViewTimelapseShowsAnimation ==
    [][(/\ run.reached = "report" /\ resp.tl = "written"
        /\ "btn_view" \in shown /\ ~rerun
        /\ clicked' = "btn_view" /\ run'.reached # "ee_stop")
       => /\ "gif_image" \in shown'
          /\ "report_header" \in shown']_vars

====
